---- MODULE Spec2Model ----
(***************************************************************************)
(* Batch sanctions screening of ComplyCo/watchman.                         *)
(*                                                                         *)
(* Three batch dispatchers of the repository are modelled:                 *)
(*   "server"          cmd/internal/search_batch.go  SearchBatch and       *)
(*                     ProcessRows (the HTTP batch entry point)            *)
(*   "batchsearch"     the CLI processRows (src/unnamed/part_000)          *)
(*   "cc_batchsearch"  the CLI checkNames (cmd/cc_batchsearch/main.go)     *)
(*                                                                         *)
(* Strings the code splits, trims or searches are sequences of             *)
(* one-character strings.  Scores and thresholds are float64 values of the *)
(* code, represented in thousandths (0.99 is 990, the sentinel -1.0 is     *)
(* -1000); the code only compares them and prints them with two decimals.  *)
(* The timestamp column (time.Now()) of an output line is left out.        *)
(***************************************************************************)
EXTENDS Integers, Sequences, FiniteSets, TLC

\* ------------------------------------------------------------------ bounds
\* most data rows after the header
MaxRows == 2
\* largest worker limit (runtime.NumCPU() of the host, -workers of the CLI)
MaxWorkers == 2
\* most data rows of the batch that runs beside other HTTP requests
MaxHttpRows == 1
\* most names of a cc_batchsearch run
MaxNames == 2
\* most data rows of a batch of the row shapes
MaxShapeRows == 1

\* ------------------------------------------------------- string primitives
\* strings.Split(s, sep) for a one-character separator: always at least one
\* element, Split("", sep) = <<"">>.
RECURSIVE Split(_, _)
Split(s, sep) ==
    IF \E k \in 1..Len(s) : s[k] = sep
    THEN LET k == CHOOSE j \in 1..Len(s) :
                      s[j] = sep /\ \A m \in 1..(j - 1) : s[m] # sep
         IN  <<SubSeq(s, 1, k - 1)>> \o Split(SubSeq(s, k + 1, Len(s)), sep)
    ELSE <<s>>

\* strings.TrimLeft(s, cutset)
RECURSIVE TrimLeft(_, _)
TrimLeft(s, cutset) ==
    IF Len(s) > 0 /\ s[1] \in cutset THEN TrimLeft(Tail(s), cutset) ELSE s

\* strings.TrimRight(s, cutset)
RECURSIVE TrimRight(_, _)
TrimRight(s, cutset) ==
    IF Len(s) > 0 /\ s[Len(s)] \in cutset
    THEN TrimRight(SubSeq(s, 1, Len(s) - 1), cutset)
    ELSE s

\* strings.Trim(s, cutset)
Trim(s, cutset) == TrimRight(TrimLeft(s, cutset), cutset)

\* strings.Contains(s, c) for a one-character c
Contains(s, c) == \E k \in 1..Len(s) : s[k] = c

\* cutset of trimDelimiters: ",\n\r\t"
Delimiters == {",", "\n", "\r", "\t"}

\* trimDelimiters of cmd/internal/search_batch.go
trimDelimiters(s) == Trim(s, Delimiters)

\* getNameFromRow that uses the columns as they are
getNameFromRowNoTrim(row) ==
    LET cols == Split(row, ",") IN
    IF Len(cols) >= 3 THEN cols[3] \o <<",", " ">> \o cols[2]
    ELSE IF Len(cols) = 2 THEN cols[2] \o <<",", " ">> \o cols[1]
    ELSE cols[1]

\* getNameFromRow of cmd/internal/search_batch.go
getNameFromRow(row) ==
    LET cols == Split(row, ",") IN
    IF Len(cols) >= 3
    THEN trimDelimiters(cols[3]) \o <<",", " ">> \o trimDelimiters(cols[2])
    ELSE IF Len(cols) = 2
    THEN trimDelimiters(cols[2]) \o <<",", " ">> \o trimDelimiters(cols[1])
    ELSE trimDelimiters(cols[1])

\* unicode white space that occurs in the inputs, for strings.TrimSpace
WhiteSpace == {" ", "\t", "\n", "\r"}

\* strings.TrimSpace
TrimSpace(s) == Trim(s, WhiteSpace)

\* strings.HasPrefix(row, "//") || strings.HasPrefix(row, "#")
IsComment(row) ==
    \/ Len(row) >= 2 /\ row[1] = "/" /\ row[2] = "/"
    \/ Len(row) >= 1 /\ row[1] = "#"

\* readRows of the CLI (readNames of cc_batchsearch is the same), on the
\* lines the scanner yields
readRows(lines) ==
    SelectSeq([k \in 1..Len(lines) |-> TrimSpace(lines[k])],
              LAMBDA row : ~IsComment(row))

\* ---------------------------------------------------------------- numbers
DigitChars == {"0", "1", "2", "3", "4", "5", "6", "7", "8", "9"}

DigitVal(c) ==
    CASE c = "0" -> 0 [] c = "1" -> 1 [] c = "2" -> 2 [] c = "3" -> 3
      [] c = "4" -> 4 [] c = "5" -> 5 [] c = "6" -> 6 [] c = "7" -> 7
      [] c = "8" -> 8 [] c = "9" -> 9

RECURSIVE DigitsVal(_)
DigitsVal(ds) ==
    IF Len(ds) = 0 THEN 0
    ELSE 10 * DigitsVal(SubSeq(ds, 1, Len(ds) - 1)) + DigitVal(ds[Len(ds)])

\* strconv.ParseFloat(s, 64) on the decimal forms [+-]digits[.digits]; the
\* value is in thousandths, decimals after the third are dropped.  Anything
\* else (the empty string, letters) is a syntax error: ok = FALSE.
ParseFloat(s) ==
    LET neg   == Len(s) > 0 /\ s[1] = "-"
        body  == IF Len(s) > 0 /\ s[1] \in {"+", "-"} THEN Tail(s) ELSE s
        parts == Split(body, ".")
        ip    == parts[1]
        fp    == IF Len(parts) >= 2 THEN parts[2] ELSE <<>>
        fp3   == SubSeq(fp \o <<"0", "0", "0">>, 1, 3)
        ok    == /\ Len(parts) <= 2
                 /\ Len(ip) + Len(fp) > 0
                 /\ \A k \in 1..Len(ip) : ip[k] \in DigitChars
                 /\ \A k \in 1..Len(fp) : fp[k] \in DigitChars
        mag   == IF ok THEN 1000 * DigitsVal(ip) + DigitsVal(fp3) ELSE 0
    IN  [ok |-> ok, f |-> IF neg THEN 0 - mag ELSE mag]

\* fmt "%.2f" of a score in thousandths: the value in hundredths, rounded to
\* nearest (the scores of the model are no ties), printed.
Fmt2(score) ==
    IF score >= 0 THEN ToString((score + 5) \div 10)
    ELSE "-" \o ToString(((0 - score) + 5) \div 10)

\* ------------------------------------------------- the remote search service
\* moov.SearchResult of client/model_search_result.go; a nil *string is "nil"
SearchResult(IsSet, EntityID, SdnName, Score, Programs) ==
    [IsSet |-> IsSet, EntityID |-> EntityID, SdnName |-> SdnName,
     Score |-> Score, Programs |-> Programs]

\* the zero value moov.SearchResult{}
ZeroResult == SearchResult(FALSE, "nil", <<>>, 0, <<>>)

\* error values: NoError is nil, otherwise the message prefix and the %v of
\* the error it wraps
NoError == [msg |-> "", cause |-> ""]
Errorf(msg, cause) == [msg |-> msg, cause |-> cause]

\* fmt "%v" of an error value whose text is e ("" is the nil error)
ErrV(e) == IF e = "" THEN "<nil>" ELSE e

\* "Smith, John", abbreviated
NameSJ == <<"S", ",", " ", "J">>
\* a display name without a comma
NameAcme == <<"A", "c">>

\* candidates (moov.OfacSdn with its Match) and alternate-name references
Sdn007 == [EntityID |-> "007", SdnName |-> NameSJ, Match |-> 990, Programs |-> <<"SDGT">>]
Sdn008 == [EntityID |-> "008", SdnName |-> NameAcme, Match |-> 0, Programs |-> <<>>]
Sdn009 == [EntityID |-> "009", SdnName |-> NameAcme, Match |-> 0, Programs |-> <<>>]
Alt008 == [EntityID |-> "008", Match |-> 500]
Alt009 == [EntityID |-> "009", Match |-> 0]

\* what WatchmanApi.Search may answer: err is the %v of the error ("" is nil)
SearchResponses ==
    { [err |-> "timeout", SDNs |-> <<>>, AltNames |-> <<>>],
      [err |-> "", SDNs |-> <<Sdn007, Sdn009>>, AltNames |-> <<Alt008>>],
      [err |-> "", SDNs |-> <<>>, AltNames |-> <<Alt008, Alt009>>],
      [err |-> "", SDNs |-> <<>>, AltNames |-> <<>>] }

\* what WatchmanApi.GetOfacCustomer may answer
CustomerResponses ==
    { [err |-> "refused", Sdn |-> Sdn008],
      [err |-> "", Sdn |-> Sdn008],
      [err |-> "", Sdn |-> Sdn009] }

\* a newSearchResult that leaves EntityID nil
newSearchResultNilEntity(query_result, entity_id, score) ==
    SearchResult(TRUE, "nil", query_result.SdnName, score, query_result.Programs)

\* newSearchResult of cmd/internal/search_batch.go (the CLI copies are the same)
newSearchResult(query_result, entity_id, score) ==
    SearchResult(TRUE, entity_id, query_result.SdnName, score, query_result.Programs)

\* an unset result with the score 0.0
emptyResultScoreZero == SearchResult(FALSE, "nil", <<>>, 0, <<>>)

\* empty_result of searchByName: -1.0 indicates nothing found
empty_result == SearchResult(FALSE, "nil", <<>>, -1000, <<>>)

\* the calls searchByName issues to the remote service, with the name or the
\* entity id they ask for and the answer they get
CallSearch(name, resp) == <<[api |-> "Search", arg |-> name, ans |-> resp]>>
CallSearchAndCustomer(name, resp, altEntityID, cust) ==
    CallSearch(name, resp)
       \o <<[api |-> "GetOfacCustomer", arg |-> altEntityID, ans |-> cust]>>

\* what searchByName does once the name is known not to be empty: resp is the
\* answer of Search and cust the answer of GetOfacCustomer, were they called;
\* calls are the remote calls issued, in order
searchNonEmptyName(name, resp, cust) ==
    IF resp.err # ""
    THEN [result |-> empty_result, err |-> Errorf("searchByName.Search", ErrV(resp.err)),
          calls |-> CallSearch(name, resp)]
    ELSE IF Len(resp.SDNs) > 0
    THEN LET sdn == resp.SDNs[1]
         IN  [result |-> newSearchResult(sdn, sdn.EntityID, sdn.Match), err |-> NoError,
              calls |-> CallSearch(name, resp)]
    ELSE IF Len(resp.AltNames) > 0
    THEN LET altEntityID == resp.AltNames[1].EntityID IN
         IF cust.err # ""
         THEN [result |-> empty_result,
               err |-> Errorf("searchByName.GetOfacCustomer", ErrV(resp.err)),
               calls |-> CallSearchAndCustomer(name, resp, altEntityID, cust)]
         ELSE IF cust.Sdn.EntityID = altEntityID
         THEN [result |-> newSearchResult(cust.Sdn, altEntityID, resp.AltNames[1].Match),
               err |-> NoError, calls |-> CallSearchAndCustomer(name, resp, altEntityID, cust)]
         ELSE [result |-> empty_result, err |-> NoError,
               calls |-> CallSearchAndCustomer(name, resp, altEntityID, cust)]
    ELSE [result |-> empty_result, err |-> NoError, calls |-> CallSearch(name, resp)]

\* searchByName that searches whatever name it is given
searchByNameAnyName(name, resp, cust) == searchNonEmptyName(name, resp, cust)

\* searchByName that resolves an alternate name whenever Search returned one,
\* whether or not it returned SDNs
searchByNameAltNamesFirst(name, resp, cust) ==
    IF name = <<>>
    THEN [result |-> ZeroResult, err |-> Errorf("searchByName: name is empty", ""),
          calls |-> <<>>]
    ELSE IF Len(resp.AltNames) > 0
    THEN LET r == searchNonEmptyName(name, [resp EXCEPT !.SDNs = <<>>], cust)
         IN  [r EXCEPT !.calls[1].ans = resp]
    ELSE searchNonEmptyName(name, resp, cust)

\* searchByName that reports a resolved entity id other than the requested
\* one as an error
searchByNameMismatchFails(name, resp, cust) ==
    LET r == IF name = <<>>
             THEN [result |-> ZeroResult,
                   err |-> Errorf("searchByName: name is empty", ""), calls |-> <<>>]
             ELSE searchNonEmptyName(name, resp, cust)
    IN  IF Len(r.calls) = 2 /\ r.err = NoError /\ ~r.result.IsSet
        THEN [r EXCEPT !.err = Errorf("searchByName: entity id mismatch", "")]
        ELSE r

\* searchByName of cmd/internal/search_batch.go
searchByName(name, resp, cust) ==
    IF name = <<>>
    THEN [result |-> ZeroResult, err |-> Errorf("searchByName: name is empty", ""),
          calls |-> <<>>]
    ELSE searchNonEmptyName(name, resp, cust)

\* ------------------------------------------------------------------ inputs
\* a header line with a dangling delimiter
Header == <<"i", ",", "l", ",", "f", ",">>
\* "1,S,J": id, last name, first name
Row3 == <<"1", ",", "S", ",", "J">>
\* "D,A": two name fields
Row2 == <<"D", ",", "A">>
\* the blank last line of a CRLF file: its Subject is empty
RowBlank == <<"\r">>

\* "2,T,K": another row of three columns
Row3b == <<"2", ",", "T", ",", "K">>

\* the data rows of an upload
RowTexts == {Row3, Row2, RowBlank}

\* row shapes: one field "M" before a CR; two fields "D" and "A" between a
\* tab and a CR; three fields with tabs around the second; four fields; a
\* space, which is no delimiter, before the second field; a lone comma
Row1cr == <<"M", "\r">>
Row2cr == <<"\t", "D", ",", "A", "\r">>
Row3tab == <<"1", ",", "\t", "S", "\t", ",", "J", "\r">>
Row4 == <<"1", ",", "S", ",", "J", ",", "x">>
Row3sp == <<"1", ",", " ", "S", ",", "J">>
RowComma == <<",">>
ShapeRowTexts == {Row1cr, Row2cr, Row3tab, Row4, Row3sp, RowComma, Row3, RowBlank}

\* the data rows of a batchsearch file
CliRowTexts == {Row3, Row3b, Row2}

\* the threshold form field: absent, not a number, "-2"
ThresholdFields == {<<>>, <<"x">>, <<"-", "2">>}

\* var matchThreshold float64 = 0.99, and the value restored for an absent field
DefaultThreshold == 990

\* exit codes of the CLIs
Success == 0
Failure == 1

\* -------------------------------------------------------------------- state
VARIABLES
    prog,            \* which dispatcher runs
    rows,            \* the input lines, header first
    form,            \* the other form fields of the request
    search_opts,     \* search_opts of SearchBatch
    threshold,       \* the threshold form field of the request
    limit,           \* the worker limit: capacity of the gate
    matchThreshold,  \* package variable of cmd/internal
    flagThreshold,   \* *flagThreshold of the CLIs
    exitCode,        \* exitCode of the CLI dispatchers
    count,           \* count of the CLI collectors
    pc,              \* where the dispatching goroutine is
    next,            \* loop variable i: rows[next] is launched next
    gate,            \* slots of the syncutil.Gate in use
    wg,              \* counter of the sync.WaitGroup
    task,            \* the row goroutines
    resultsChan,     \* buffered results, oldest first
    closed,          \* resultsChan is closed
    output,          \* the output slice
    summary,         \* the summary logged after the batch
    ret              \* what the dispatcher returned

vars == <<prog, rows, form, search_opts, threshold, limit, matchThreshold, flagThreshold, exitCode,
          count, pc, next, gate, wg, task, resultsChan, closed, output, summary,
          ret>>

\* what an action of the server leaves alone besides its own variables
cliVars == <<flagThreshold, exitCode, count>>

\* rows = rows[1:] : the data rows, data(k) for the 0-based k of the code
input_size == Len(rows) - 1
data(k) == rows[k + 2]

\* ------------------------------------------------------ formatting (server)
\* getNoun with the threshold test first
getNounThresholdFirst(score) ==
    IF score >= matchThreshold THEN "MATCH"
    ELSE IF score < 0 THEN "Clear"
    ELSE "Hit"

\* getNoun with a strict threshold test
getNounStrict(score) ==
    IF score < 0 THEN "Clear"
    ELSE IF score > matchThreshold THEN "MATCH"
    ELSE "Hit"

\* getNoun without the last rule: whatever is not Clear is MATCH
getNounNoHit(score) ==
    IF score < 0 THEN "Clear" ELSE "MATCH"

\* getNoun of cmd/internal/search_batch.go
getNoun(score) ==
    IF score < 0 THEN "Clear"
    ELSE IF score >= matchThreshold THEN "MATCH"
    ELSE "Hit"

\* a CSV line, column by column
Line(row, Result, SdnName, EntityID, Score, Programs) ==
    [row |-> row, Result |-> Result, SdnName |-> SdnName, EntityID |-> EntityID,
     Score |-> Score, Programs |-> Programs]

\* the zero value "" of an output slot
EmptyLine == Line(<<>>, "", <<>>, "", "", <<>>)

\* fmt "%s" of a []string
FmtStrings(programs) == <<"[">> \o programs \o <<"]">>

\* newSearchResultRecord of cmd/internal/search_batch.go
newSearchResultRecord(result, input_row) ==
    LET sdn_name_parts == Split(result.SdnName, ",")
        sdn_name_no_comma ==
            IF Contains(result.SdnName, ",")
            THEN sdn_name_parts[2] \o <<" ">> \o sdn_name_parts[1]
            ELSE result.SdnName
    IN  Line(trimDelimiters(input_row), getNoun(result.Score), sdn_name_no_comma,
             result.EntityID, Fmt2(result.Score), FmtStrings(result.Programs))

\* newSearchResultClearRecord of cmd/internal/search_batch.go
newSearchResultClearRecord(result, searched_name) ==
    Line(trimDelimiters(searched_name), getNoun(result.Score), <<>>, "", "", <<>>)

\* writeHeadings of cmd/internal/search_batch.go
writeHeadings(original_headings) ==
    Line(trimDelimiters(original_headings), "Result", <<"SdnName">>, "EntityID",
         "Score", <<"Programs">>)

\* the subject types the select of the web form offers
SdnTypes == {"individual", "entity"}

\* handleBatchSearchClick of the web form: the fields it appends to the form
\* data besides the file, min-match and threshold
handleBatchSearchClick(sdnType) == [field \in {"sdnType"} |-> sdnType]

\* the fields a client of the HTTP API sends to choose a subject type
ApiForm(sdn_type) == [field \in {"sdn-type"} |-> sdn_type]

\* r.FormValue(key): "" for a field the form does not hold
FormValue(f, key) == IF key \in DOMAIN f THEN f[key] ELSE ""

\* moov.SearchOpts before any request has built one
NoSearchOpts == [Limit |-> 0, MinMatch |-> 0, SdnType |-> ""]

\* newSearchOptsFromFormFields: the search_opts it returns for the form f of a
\* request without a min-match field
newSearchOpts(f) ==
    [Limit |-> 1, MinMatch |-> 900,
     SdnType |-> IF FormValue(f, "sdn-type") # "" THEN FormValue(f, "sdn-type")
                 ELSE "individual"]

\* newSearchOptsFromFormFields: the value it leaves in matchThreshold
newSearchOptsFromFormFields(field) ==
    IF field # <<>>
    THEN IF ParseFloat(field).ok THEN ParseFloat(field).f ELSE matchThreshold
    ELSE DefaultThreshold

\* ChanResult with the index counted from 1
ChanResultFromOne(Index, Value) == [Index |-> Index + 1, Value |-> Value]

\* ChanResult that carries the index of the first row
ChanResultIndexZero(Index, Value) == [Index |-> 0, Value |-> Value]

\* ChanResult of cmd/internal/search_batch.go
ChanResult(Index, Value) == [Index |-> Index, Value |-> Value]

\* --------------------------------------------------------------------- Init
\* make([]string, len(names)*5): 5X enough space for all results?
OutputFactor == 5

\* every list of at most n data rows out of texts, no row twice
DataSeqs(texts, n) ==
    {d \in UNION {[1..m -> texts] : m \in 0..n} :
        \A a, b \in 1..Len(d) : a # b => d[a] # d[b]}

\* a row goroutine before it is launched: where it is (st), its result and
\* whether searchByName returned an error, the line it formatted last, how
\* many lines it has sent, and the remote calls its searchByName of
\* cmd/internal issued and the error it returned
NewTask == [st |-> "pending", res |-> ZeroResult, err |-> FALSE,
            line |-> EmptyLine, sends |-> 0, calls |-> <<>>, error |-> NoError]

\* names, as cc_batchsearch reads them one per line
NameTexts == {<<"S">>, <<"D", " ">>}

\* the lines of an input file of at most n data rows: none at all, or a
\* header and the data rows; for cc_batchsearch, the names
Files(p, n) ==
    IF p = "cc_batchsearch"
    THEN UNION {[1..m -> NameTexts] : m \in 0..MaxNames}
    ELSE {<<>>} \cup {<<Header>> \o d : d \in DataSeqs(CliRowTexts, n)}

\* the -threshold flag values flag.Parse accepts, and with them *flagThreshold
FlagThreshold(field) == IF field = <<>> THEN DefaultThreshold ELSE ParseFloat(field).f

\* the 0-based indexes of the rows (names) to search
RowIdx == IF prog = "cc_batchsearch" THEN 0..(Len(rows) - 1) ELSE 0..(Len(rows) - 2)

\* make([]string, n)
MakeStrings(n) == [k \in 0..(n - 1) |-> EmptyLine]

\* output without the slot of the header row
SrvOutputNoHeader == MakeStrings(input_size)

\* output := make([]string, len(rows)+1) of ProcessRows: +1 for header row
SrvOutput == MakeStrings(input_size + 1)

\* output := make([]string, len(rows)+1) of processRows
CliOutput == MakeStrings(input_size + 1)

\* output := make([]string, len(names)*5) of checkNames
ChkOutput == MakeStrings(Len(rows) * OutputFactor)

NewOutput ==
    IF prog = "server" THEN SrvOutput
    ELSE IF prog = "batchsearch" THEN CliOutput
    ELSE ChkOutput

\* the state at the start of a batch of at most maxRows rows (MaxNames names)
\* run by one of progs, its threshold form field or flag one of fields, the
\* lines of an upload one of uploads, the other fields of its form one of
\* forms
InitForms(progs, uploads, maxRows, fields, forms) ==
    /\ prog \in progs
    /\ form \in IF prog = "server" THEN forms ELSE {<<>>}
    /\ search_opts = NoSearchOpts
    /\ rows \in IF prog = "server"
                THEN uploads
                ELSE {readRows(f) : f \in Files(prog, maxRows)}
    /\ threshold \in IF prog = "server"
                     THEN fields
                     ELSE {f \in fields : f = <<>> \/ ParseFloat(f).ok}
    /\ limit \in 1..MaxWorkers
    /\ matchThreshold = DefaultThreshold
    /\ flagThreshold = IF prog = "server" THEN DefaultThreshold
                       ELSE FlagThreshold(threshold)
    /\ exitCode = Success
    /\ count = 0
    /\ pc = IF prog = "server" THEN "request" ELSE "start"
    /\ next = 0
    /\ gate = 0
    /\ wg = 0
    /\ task = [k \in RowIdx |->
                  IF prog = "cc_batchsearch" THEN [NewTask EXCEPT !.res = <<>>]
                  ELSE NewTask]
    /\ resultsChan = <<>>
    /\ closed = FALSE
    /\ output = NewOutput
    /\ summary = <<>>
    /\ ret = [returned |-> FALSE, output |-> <<>>, err |-> NoError, code |-> Success]

\* the same, the web form submitted with the subject type it starts with
InitRows(progs, uploads, maxRows, fields) ==
    InitForms(progs, uploads, maxRows, fields, {handleBatchSearchClick("individual")})

\* the uploads of a header and at most n data rows out of texts, no row twice
Uploads(texts, n) == {<<Header>> \o d : d \in DataSeqs(texts, n)}

InitOf(progs, maxRows, fields) ==
    InitRows(progs, Uploads(RowTexts, maxRows), maxRows, fields)

Init == InitOf({"server", "batchsearch"}, MaxRows, {<<>>, <<"-", "2">>})

\* ------------------------------------------------- the HTTP batch entry point
\* SearchBatch up to the call of ProcessRows: the form is parsed and the
\* threshold field stored in the package variable.
SearchBatch ==
    /\ prog = "server"
    /\ pc = "request"
    /\ matchThreshold' = newSearchOptsFromFormFields(threshold)
    /\ search_opts' = newSearchOpts(form)
    /\ pc' = "loop"
    /\ UNCHANGED <<cliVars, prog, rows, form, threshold, limit, next, gate, wg, task,
                   resultsChan, closed, output, summary, ret>>

\* The handler of another request, served concurrently by net/http, parses its
\* own form: all it shares with this request is matchThreshold.
OtherSearchBatch(field) ==
    /\ prog = "server"
    /\ pc \in {"request", "loop", "collect"}
    /\ matchThreshold' = newSearchOptsFromFormFields(field)
    /\ UNCHANGED <<cliVars, prog, rows, form, search_opts, threshold, limit, pc, next, gate, wg, task,
                   resultsChan, closed, output, summary, ret>>

\* a gate as large as the batch
SrvGateOfBatchSize == gate < input_size

\* workers.Start() of ProcessRows returns: a slot of the gate of
\* runtime.NumCPU() slots is free
SrvGateFree == gate < limit

\* ProcessRows, one iteration of the launching loop: wg.Add(1),
\* workers.Start() (blocks while the gate is full), go func(i, row).
SrvLaunch ==
    /\ prog = "server"
    /\ pc = "loop"
    /\ next < input_size
    /\ SrvGateFree
    /\ wg' = wg + 1
    /\ gate' = gate + 1
    /\ task' = [task EXCEPT ![next].st = "running"]
    /\ next' = next + 1
    /\ UNCHANGED <<cliVars, prog, rows, form, search_opts, threshold, limit, matchThreshold, pc,
                   resultsChan, closed, output, summary, ret>>

\* ProcessRows after the loop: the goroutine that waits and closes is
\* started and the header written to slot 0.
SrvSpawn ==
    /\ prog = "server"
    /\ pc = "loop"
    /\ next = input_size
    /\ IF 0 \in DOMAIN output
       THEN pc' = "collect" /\ output' = [output EXCEPT ![0] = writeHeadings(rows[1])]
       ELSE pc' = "panic" /\ output' = output
    /\ UNCHANGED <<cliVars, prog, rows, form, search_opts, threshold, limit, matchThreshold, next, gate, wg,
                   task, resultsChan, closed, summary, ret>>

\* a search error that ends the process, as a log.Fatal of the standard
\* library would
SrvFailExits(k, r) ==
    /\ pc' = "panic"
    /\ UNCHANGED <<resultsChan, task>>

\* row goroutine, searchByName returned an error: it is logged and the
\* goroutine returns
SrvFail(k, r) ==
    /\ task' = [task EXCEPT ![k].st = "failed", ![k].err = TRUE,
                            ![k].calls = r.calls, ![k].error = r.err]
    /\ UNCHANGED <<resultsChan, pc>>

\* row goroutine, searchByName returned result: the line is formatted (getNoun
\* reads matchThreshold now) and sent.  newSearchResultRecord dereferences
\* result.EntityID, which panics when it is nil.  The send blocks while the
\* buffer of len(rows) is full and panics on a closed channel.
SrvDeliver(k, result, calls) ==
    LET Value == IF result.IsSet
                 THEN newSearchResultRecord(result, data(k))
                 ELSE newSearchResultClearRecord(result, data(k))
    IN  IF result.IsSet /\ result.EntityID = "nil"
        THEN /\ pc' = "panic"
             /\ UNCHANGED <<resultsChan, task>>
        ELSE
        /\ Len(resultsChan) < input_size
        /\ IF closed
           THEN /\ pc' = "panic"
                /\ UNCHANGED <<resultsChan, task>>
           ELSE /\ resultsChan' = Append(resultsChan, ChanResult(k, Value))
                /\ task' = [task EXCEPT ![k] =
                              [st |-> "sent", res |-> result, err |-> FALSE,
                               line |-> Value, sends |-> @.sends + 1,
                               calls |-> calls, error |-> NoError]]
                /\ pc' = pc

\* row goroutine, from getNameFromRow to the send, with whatever the service
\* answers
SrvSearch(k) ==
    /\ prog = "server"
    /\ task[k].st = "running"
    /\ \E resp \in SearchResponses, cust \in CustomerResponses :
          LET r == searchByName(getNameFromRow(data(k)), resp, cust) IN
          IF r.err # NoError THEN SrvFail(k, r)
          ELSE SrvDeliver(k, r.result, r.calls)
    /\ UNCHANGED <<cliVars, prog, rows, form, search_opts, threshold, limit, matchThreshold, next,
                   gate, wg, closed, output, summary, ret>>

\* a wg.Done() that only runs after the send
SrvWgDoneAfterSend(k) ==
    /\ prog = "server"
    /\ task[k].st = "sent"
    /\ wg' = wg - 1
    /\ task' = [task EXCEPT ![k].st = "wgdone"]
    /\ UNCHANGED <<cliVars, prog, rows, form, search_opts, threshold, limit, matchThreshold, pc, next, gate,
                   resultsChan, closed, output, summary, ret>>

\* row goroutine: the deferred wg.Done(), which runs first
SrvWgDone(k) ==
    /\ prog = "server"
    /\ task[k].st \in {"failed", "sent"}
    /\ wg' = wg - 1
    /\ task' = [task EXCEPT ![k].st = "wgdone"]
    /\ UNCHANGED <<cliVars, prog, rows, form, search_opts, threshold, limit, matchThreshold, pc, next, gate,
                   resultsChan, closed, output, summary, ret>>

\* a row goroutine that ends without workers.Done()
SrvGateNotDone(k) ==
    /\ prog = "server"
    /\ task[k].st = "wgdone"
    /\ task' = [task EXCEPT ![k].st = "exit"]
    /\ UNCHANGED <<cliVars, prog, rows, form, search_opts, threshold, limit, matchThreshold, pc, next, wg,
                   gate, resultsChan, closed, output, summary, ret>>

\* row goroutine: the deferred workers.Done(), which runs last
SrvGateDone(k) ==
    /\ prog = "server"
    /\ task[k].st = "wgdone"
    /\ gate' = gate - 1
    /\ task' = [task EXCEPT ![k].st = "exit"]
    /\ UNCHANGED <<cliVars, prog, rows, form, search_opts, threshold, limit, matchThreshold, pc, next, wg,
                   resultsChan, closed, output, summary, ret>>

\* a close(resultsChan) that does not wait for the row goroutines
SrvCloseNoWait ==
    /\ prog = "server"
    /\ pc = "collect"
    /\ ~closed
    /\ closed' = TRUE
    /\ UNCHANGED <<cliVars, prog, rows, form, search_opts, threshold, limit, matchThreshold, pc, next, gate,
                   wg, task, resultsChan, output, summary, ret>>

\* go func() { wg.Wait(); close(resultsChan) }()
SrvClose ==
    /\ prog = "server"
    /\ pc = "collect"
    /\ ~closed
    /\ wg = 0
    /\ closed' = TRUE
    /\ UNCHANGED <<cliVars, prog, rows, form, search_opts, threshold, limit, matchThreshold, pc, next, gate,
                   wg, task, resultsChan, output, summary, ret>>

\* the slot of a result without the offset of the header row
SlotNoOffset(r) == r.Index

\* the slot of a result: r.Index+1, +1 for header row
Slot(r) == r.Index + 1

\* for r := range resultsChan { output[r.Index+1] = r.Value }; a write
\* outside output panics
SrvCollect ==
    /\ prog = "server"
    /\ pc = "collect"
    /\ resultsChan # <<>>
    /\ LET r == Head(resultsChan) IN
       IF Slot(r) \in DOMAIN output
       THEN output' = [output EXCEPT ![Slot(r)] = r.Value] /\ pc' = pc
       ELSE pc' = "panic" /\ output' = output
    /\ resultsChan' = Tail(resultsChan)
    /\ UNCHANGED <<cliVars, prog, rows, form, search_opts, threshold, limit, matchThreshold, next, gate,
                   wg, task, closed, summary, ret>>

\* len(output)
LenOutput == Cardinality(DOMAIN output)

\* the summary ProcessRows logs
SrvSummary ==
    LET output_size == LenOutput - 1 IN
    IF input_size = output_size
    THEN <<"SUCCESS", output_size>>
    ELSE <<"FAILURES", output_size, input_size>>

\* the range loop ends on the closed, drained channel; the summary is logged
\* and output returned with a nil error
SrvReturn ==
    /\ prog = "server"
    /\ pc = "collect"
    /\ resultsChan = <<>>
    /\ closed
    /\ summary' = SrvSummary
    /\ ret' = [returned |-> TRUE, output |-> output, err |-> NoError, code |-> Success]
    /\ pc' = "done"
    /\ UNCHANGED <<cliVars, prog, rows, form, search_opts, threshold, limit, matchThreshold, next, gate, wg,
                   task, resultsChan, closed, output>>

\* ------------------------------------------- the CLI batchsearch: processRows
\* getNoun of the CLI batchsearch
cli_getNoun(score) ==
    IF score < 0 THEN "Clear"
    ELSE IF score >= flagThreshold THEN "MATCH"
    ELSE "Hit"

\* newSearchResultRecord of the CLI batchsearch
cli_newSearchResultRecord(result, input_row) ==
    LET sdn_name_parts == Split(result.SdnName, ",")
        sdn_name_no_comma ==
            IF Contains(result.SdnName, ",")
            THEN sdn_name_parts[2] \o <<" ">> \o sdn_name_parts[1]
            ELSE result.SdnName
    IN  Line(TrimRight(input_row, {","}), cli_getNoun(result.Score),
             sdn_name_no_comma, result.EntityID, Fmt2(result.Score),
             FmtStrings(result.Programs))

\* newSearchResultClearRecord of the CLI batchsearch
cli_newSearchResultClearRecord(result, searched_name) ==
    Line(TrimRight(searched_name, {","}), cli_getNoun(result.Score), <<>>, "", "", <<>>)

\* writeHeadings of the CLI batchsearch
cli_writeHeadings(original_headings) ==
    Line(TrimRight(original_headings, {","}), "Result", <<"SdnName">>, "EntityID",
         "Score", <<"Programs">>)

\* searchByName of the CLI batchsearch
cli_searchByName(name, resp, cust) ==
    IF resp.err # ""
    THEN [result |-> empty_result, err |-> Errorf("searchByName", ErrV(resp.err))]
    ELSE IF Len(resp.SDNs) > 0
    THEN LET sdn == resp.SDNs[1]
         IN  [result |-> newSearchResult(sdn, sdn.EntityID, sdn.Match), err |-> NoError]
    ELSE IF Len(resp.AltNames) > 0
    THEN LET altEntityID == resp.AltNames[1].EntityID IN
         IF cust.err # ""
         THEN [result |-> empty_result, err |-> Errorf("searchByName", ErrV(resp.err))]
         ELSE IF cust.Sdn.EntityID = altEntityID
         THEN [result |-> newSearchResult(cust.Sdn, altEntityID, resp.AltNames[1].Match),
               err |-> NoError]
         ELSE [result |-> empty_result, err |-> NoError]
    ELSE [result |-> empty_result, err |-> NoError]

\* a markFailure that stores Success
markFailureStoresSuccess(code) == Success

\* markFailure: atomic.CompareAndSwapInt64(&exitCode, Success, Failure)
markFailure(code) == IF code = Success THEN Failure ELSE code

srvVars == <<matchThreshold>>

\* processRows up to the loop: rows[0] panics on a file without rows;
\* wg.Add(len(rows))
CliStart ==
    /\ prog = "batchsearch"
    /\ pc = "start"
    /\ IF rows = <<>>
       THEN pc' = "panic" /\ wg' = wg
       ELSE pc' = "loop" /\ wg' = input_size
    /\ UNCHANGED <<srvVars, cliVars, prog, rows, form, search_opts, threshold, limit, next, gate,
                   task, resultsChan, closed, output, summary, ret>>

\* one iteration of the launching loop: workers.Start(), go func(rows[i])
CliLaunch ==
    /\ prog = "batchsearch"
    /\ pc = "loop"
    /\ next < input_size
    /\ gate < limit
    /\ gate' = gate + 1
    /\ task' = [task EXCEPT ![next].st = "running"]
    /\ next' = next + 1
    /\ UNCHANGED <<srvVars, cliVars, prog, rows, form, search_opts, threshold, limit, pc, wg,
                   resultsChan, closed, output, summary, ret>>

\* after the loop: the closing goroutine is started, output[0] and count set
CliSpawn ==
    /\ prog = "batchsearch"
    /\ pc = "loop"
    /\ next = input_size
    /\ pc' = "collect"
    /\ output' = [output EXCEPT ![0] = cli_writeHeadings(rows[1])]
    /\ count' = 1
    /\ UNCHANGED <<srvVars, flagThreshold, exitCode, prog, rows, form, search_opts, threshold, limit,
                   next, gate, wg, task, resultsChan, closed, summary, ret>>

\* row goroutine, searchByName returned an error: markFailure and a log line
CliFail(k) ==
    /\ exitCode' = markFailure(exitCode)
    /\ task' = [task EXCEPT ![k].st = "failed", ![k].err = TRUE]
    /\ UNCHANGED <<resultsChan, pc>>

\* row goroutine, searchByName returned result: the line is formatted and
\* sent (resultsChan is a chan string)
CliDeliver(k, result) ==
    LET Value == IF result.IsSet
                 THEN cli_newSearchResultRecord(result, data(k))
                 ELSE cli_newSearchResultClearRecord(result, data(k))
    IN  /\ Len(resultsChan) < input_size
        /\ IF closed
           THEN /\ pc' = "panic"
                /\ UNCHANGED <<resultsChan, task, exitCode>>
           ELSE /\ resultsChan' = Append(resultsChan, Value)
                /\ task' = [task EXCEPT ![k].st = "sent", ![k].res = result,
                                        ![k].err = FALSE, ![k].line = Value,
                                        ![k].sends = @ + 1]
                /\ UNCHANGED <<pc, exitCode>>

\* row goroutine, from the column split to the send: cols[2] panics on a row
\* of fewer than three columns, which ends the process
CliSearch(k) ==
    /\ prog = "batchsearch"
    /\ pc # "panic"
    /\ task[k].st = "running"
    /\ LET cols == Split(data(k), ",") IN
       IF Len(cols) < 3
       THEN /\ pc' = "panic"
            /\ UNCHANGED <<task, resultsChan, exitCode>>
       ELSE \E resp \in SearchResponses, cust \in CustomerResponses :
               LET searched == cols[3] \o <<",", " ">> \o cols[2]
                   r        == cli_searchByName(searched, resp, cust)
               IN  IF r.err # NoError THEN CliFail(k) ELSE CliDeliver(k, r.result)
    /\ UNCHANGED <<srvVars, flagThreshold, count, prog, rows, form, search_opts, threshold, limit,
                   next, gate, wg, closed, output, summary, ret>>

\* row goroutine: the deferred wg.Done(), which runs first
CliWgDone(k) ==
    /\ prog = "batchsearch"
    /\ pc # "panic"
    /\ task[k].st \in {"failed", "sent"}
    /\ wg' = wg - 1
    /\ task' = [task EXCEPT ![k].st = "wgdone"]
    /\ UNCHANGED <<srvVars, cliVars, prog, rows, form, search_opts, threshold, limit, pc, next, gate,
                   resultsChan, closed, output, summary, ret>>

\* row goroutine: the deferred workers.Done(), which runs last
CliGateDone(k) ==
    /\ prog = "batchsearch"
    /\ pc # "panic"
    /\ task[k].st = "wgdone"
    /\ gate' = gate - 1
    /\ task' = [task EXCEPT ![k].st = "exit"]
    /\ UNCHANGED <<srvVars, cliVars, prog, rows, form, search_opts, threshold, limit, pc, next, wg,
                   resultsChan, closed, output, summary, ret>>

\* go func() { wg.Wait(); close(resultsChan) }()
CliClose ==
    /\ prog = "batchsearch"
    /\ pc = "collect"
    /\ ~closed
    /\ wg = 0
    /\ closed' = TRUE
    /\ UNCHANGED <<srvVars, cliVars, prog, rows, form, search_opts, threshold, limit, pc, next, gate,
                   wg, task, resultsChan, output, summary, ret>>

\* for r := range resultsChan { output[count] = r; count++ }
CliCollect ==
    /\ prog = "batchsearch"
    /\ pc = "collect"
    /\ resultsChan # <<>>
    /\ output' = [output EXCEPT ![count] = Head(resultsChan)]
    /\ count' = count + 1
    /\ resultsChan' = Tail(resultsChan)
    /\ UNCHANGED <<srvVars, flagThreshold, exitCode, prog, rows, form, search_opts, threshold, limit,
                   pc, next, gate, wg, task, closed, summary, ret>>

\* the range loop ends; output[0:count] is what is printed and written; the
\* summary is logged and exitCode returned
CliReturn ==
    /\ prog = "batchsearch"
    /\ pc = "collect"
    /\ resultsChan = <<>>
    /\ closed
    /\ summary' = <<"SUCCESS", input_size>>
    /\ ret' = [returned |-> TRUE, output |-> [k \in 0..(count - 1) |-> output[k]],
               err |-> NoError, code |-> exitCode]
    /\ pc' = "done"
    /\ UNCHANGED <<srvVars, cliVars, prog, rows, form, search_opts, threshold, limit, next, gate, wg,
                   task, resultsChan, closed, output>>

\* ----------------------------------------- the CLI cc_batchsearch: checkNames
\* names and their 0-based index
names_size == Len(rows)
name(k) == rows[k + 1]

\* Limit: optional.NewInt32(5), the most candidates the service returns
SearchLimit == 5

\* the candidates of a response, best first
Candidates == <<Sdn007, Sdn008, Sdn009, Sdn007, Sdn008>>

\* what WatchmanApi.Search may answer to cc_batchsearch
CcSearchResponses ==
    { [err |-> "timeout", SDNs |-> <<>>, AltNames |-> <<>>],
      [err |-> "", SDNs |-> <<>>, AltNames |-> <<Alt008>>],
      [err |-> "", SDNs |-> <<>>, AltNames |-> <<>>] }
    \cup { [err |-> "", SDNs |-> SubSeq(Candidates, 1, n), AltNames |-> <<>>] :
              n \in {1, SearchLimit} }

\* getNoun of cc_batchsearch
cc_getNoun(score) == IF score >= flagThreshold THEN "MATCH" ELSE "hit"

\* newSearchResultRecord of cc_batchsearch (the Type and Remarks columns are
\* left out)
cc_newSearchResultRecord(result, searched_name) ==
    Line(searched_name, cc_getNoun(result.Score), result.SdnName, result.EntityID,
         Fmt2(result.Score), FmtStrings(result.Programs))

\* writeSearchResultHeader of cc_batchsearch
writeSearchResultHeader ==
    Line(<<"Name">>, "Result", <<"SdnName">>, "EntityID", "Score", <<"Programs">>)

\* empty_result of cc_batchsearch: one unset result with Score 0.0
cc_empty_result == <<SearchResult(FALSE, "nil", <<>>, 0, <<>>)>>

\* searchByName of cc_batchsearch: resp, cust and comp are the answers of
\* Search, GetOfacCustomer and GetOfacCompany, were they called
cc_searchByName(searched, resp, cust, comp) ==
    IF resp.err # ""
    THEN [result |-> cc_empty_result, err |-> Errorf("searchByName", ErrV(resp.err))]
    ELSE IF Len(resp.SDNs) > 0
    THEN [result |-> [j \in 1..Len(resp.SDNs) |->
                         newSearchResult(resp.SDNs[j], resp.SDNs[j].EntityID,
                                         resp.SDNs[j].Match)],
          err |-> NoError]
    ELSE IF Len(resp.AltNames) > 0
    THEN LET altEntityID == resp.AltNames[1].EntityID IN
         IF cust.err # ""
         THEN [result |-> cc_empty_result, err |-> Errorf("searchByName", ErrV(resp.err))]
         ELSE IF cust.Sdn.EntityID = altEntityID
         THEN [result |-> <<newSearchResult(cust.Sdn, altEntityID, resp.AltNames[1].Match)>>,
               err |-> NoError]
         ELSE IF comp.err # ""
         THEN [result |-> cc_empty_result, err |-> Errorf("searchByName", ErrV(resp.err))]
         ELSE IF comp.Sdn.EntityID = altEntityID
         THEN [result |-> <<newSearchResult(comp.Sdn, altEntityID, resp.AltNames[1].Match)>>,
               err |-> NoError]
         ELSE [result |-> cc_empty_result, err |-> NoError]
    ELSE [result |-> cc_empty_result, err |-> NoError]

\* checkNames up to the loop: wg.Add(len(names))
ChkStart ==
    /\ prog = "cc_batchsearch"
    /\ pc = "start"
    /\ pc' = "loop"
    /\ wg' = names_size
    /\ UNCHANGED <<srvVars, cliVars, prog, rows, form, search_opts, threshold, limit, next, gate,
                   task, resultsChan, closed, output, summary, ret>>

\* one iteration of the launching loop: workers.Start(), go func(names[i])
ChkLaunch ==
    /\ prog = "cc_batchsearch"
    /\ pc = "loop"
    /\ next < names_size
    /\ gate < limit
    /\ gate' = gate + 1
    /\ task' = [task EXCEPT ![next].st = "running"]
    /\ next' = next + 1
    /\ UNCHANGED <<srvVars, cliVars, prog, rows, form, search_opts, threshold, limit, pc, wg,
                   resultsChan, closed, output, summary, ret>>

\* after the loop: the closing goroutine is started, output[0] and count
\* set; output[0] panics when output is empty
ChkSpawn ==
    /\ prog = "cc_batchsearch"
    /\ pc = "loop"
    /\ next = names_size
    /\ IF 0 \in DOMAIN output
       THEN /\ pc' = "collect"
            /\ output' = [output EXCEPT ![0] = writeSearchResultHeader]
            /\ count' = 1
       ELSE /\ pc' = "panic"
            /\ UNCHANGED <<output, count>>
    /\ UNCHANGED <<srvVars, flagThreshold, exitCode, prog, rows, form, search_opts, threshold, limit,
                   next, gate, wg, task, resultsChan, closed, summary, ret>>

\* name goroutine: searchByName, whatever the service answers; an error
\* marks the failure, otherwise the results are to be sent one by one
ChkSearch(k) ==
    /\ prog = "cc_batchsearch"
    /\ pc # "panic"
    /\ task[k].st = "running"
    /\ \E resp \in CcSearchResponses, cust \in CustomerResponses,
          comp \in CustomerResponses :
          LET r == cc_searchByName(name(k), resp, cust, comp) IN
          IF r.err # NoError
          THEN /\ exitCode' = markFailure(exitCode)
               /\ task' = [task EXCEPT ![k].st = "failed", ![k].err = TRUE]
          ELSE /\ task' = [task EXCEPT ![k].st = "sending", ![k].res = r.result]
               /\ UNCHANGED exitCode
    /\ UNCHANGED <<srvVars, flagThreshold, count, prog, rows, form, search_opts, threshold, limit, pc,
                   next, gate, wg, resultsChan, closed, output, summary, ret>>

\* name goroutine, one iteration of "for i := range result": an unset
\* result returns; a set one is formatted and sent, which blocks while the
\* buffer of len(names) is full and panics on a closed channel
ChkSend(k) ==
    /\ prog = "cc_batchsearch"
    /\ pc # "panic"
    /\ task[k].st = "sending"
    /\ IF task[k].res = <<>> \/ ~Head(task[k].res).IsSet
       THEN /\ task' = [task EXCEPT ![k].st = "sent", ![k].res = <<>>]
            /\ UNCHANGED <<resultsChan, pc>>
       ELSE /\ Len(resultsChan) < names_size
            /\ IF closed
               THEN /\ pc' = "panic"
                    /\ UNCHANGED <<resultsChan, task>>
               ELSE LET Value == cc_newSearchResultRecord(Head(task[k].res), name(k)) IN
                    /\ resultsChan' = Append(resultsChan, Value)
                    /\ task' = [task EXCEPT ![k].res = Tail(@), ![k].line = Value,
                                            ![k].sends = @ + 1]
                    /\ pc' = pc
    /\ UNCHANGED <<srvVars, cliVars, prog, rows, form, search_opts, threshold, limit, next, gate, wg,
                   closed, output, summary, ret>>

\* name goroutine: the deferred wg.Done(), which runs first
ChkWgDone(k) ==
    /\ prog = "cc_batchsearch"
    /\ pc # "panic"
    /\ task[k].st \in {"failed", "sent"}
    /\ wg' = wg - 1
    /\ task' = [task EXCEPT ![k].st = "wgdone"]
    /\ UNCHANGED <<srvVars, cliVars, prog, rows, form, search_opts, threshold, limit, pc, next, gate,
                   resultsChan, closed, output, summary, ret>>

\* name goroutine: the deferred workers.Done(), which runs last
ChkGateDone(k) ==
    /\ prog = "cc_batchsearch"
    /\ pc # "panic"
    /\ task[k].st = "wgdone"
    /\ gate' = gate - 1
    /\ task' = [task EXCEPT ![k].st = "exit"]
    /\ UNCHANGED <<srvVars, cliVars, prog, rows, form, search_opts, threshold, limit, pc, next, wg,
                   resultsChan, closed, output, summary, ret>>

\* go func() { wg.Wait(); close(resultsChan) }()
ChkClose ==
    /\ prog = "cc_batchsearch"
    /\ pc = "collect"
    /\ ~closed
    /\ wg = 0
    /\ closed' = TRUE
    /\ UNCHANGED <<srvVars, cliVars, prog, rows, form, search_opts, threshold, limit, pc, next, gate,
                   wg, task, resultsChan, output, summary, ret>>

\* for r := range resultsChan { output[count] = r; count++ }: the write
\* panics when count is no index of output
ChkCollect ==
    /\ prog = "cc_batchsearch"
    /\ pc = "collect"
    /\ resultsChan # <<>>
    /\ resultsChan' = Tail(resultsChan)
    /\ IF count \in DOMAIN output
       THEN /\ output' = [output EXCEPT ![count] = Head(resultsChan)]
            /\ count' = count + 1
            /\ pc' = pc
       ELSE /\ pc' = "panic"
            /\ UNCHANGED <<output, count>>
    /\ UNCHANGED <<srvVars, flagThreshold, exitCode, prog, rows, form, search_opts, threshold, limit,
                   next, gate, wg, task, closed, summary, ret>>

\* the range loop ends; output[0:count] is what is printed and written; the
\* summary is logged and exitCode returned
ChkReturn ==
    /\ prog = "cc_batchsearch"
    /\ pc = "collect"
    /\ resultsChan = <<>>
    /\ closed
    /\ summary' = <<"SUCCESS", names_size>>
    /\ ret' = [returned |-> TRUE, output |-> [k \in 0..(count - 1) |-> output[k]],
               err |-> NoError, code |-> exitCode]
    /\ pc' = "done"
    /\ UNCHANGED <<srvVars, cliVars, prog, rows, form, search_opts, threshold, limit, next, gate, wg,
                   task, resultsChan, closed, output>>

\* ---------------------------------------------------------------------- Next
\* the HTTP batch request
SrvNext ==
    \/ SearchBatch
    \/ SrvLaunch
    \/ SrvSpawn
    \/ \E k \in RowIdx : SrvSearch(k)
    \/ \E k \in RowIdx : SrvWgDone(k)
    \/ \E k \in RowIdx : SrvGateDone(k)
    \/ SrvClose
    \/ SrvCollect
    \/ SrvReturn

\* a run of the CLI batchsearch
CliNext ==
    \/ CliStart
    \/ CliLaunch
    \/ CliSpawn
    \/ \E k \in RowIdx : CliSearch(k)
    \/ \E k \in RowIdx : CliWgDone(k)
    \/ \E k \in RowIdx : CliGateDone(k)
    \/ CliClose
    \/ CliCollect
    \/ CliReturn

\* a run of the CLI cc_batchsearch
ChkNext ==
    \/ ChkStart
    \/ ChkLaunch
    \/ ChkSpawn
    \/ \E k \in RowIdx : ChkSearch(k)
    \/ \E k \in RowIdx : ChkSend(k)
    \/ \E k \in RowIdx : ChkWgDone(k)
    \/ \E k \in RowIdx : ChkGateDone(k)
    \/ ChkClose
    \/ ChkCollect
    \/ ChkReturn

Next == SrvNext \/ CliNext

\* one batch: an HTTP batch request served alone, or a run of batchsearch
Spec == Init /\ [][Next]_vars

\* one run of either CLI
InitCLI == InitOf({"batchsearch", "cc_batchsearch"}, MaxRows, ThresholdFields)

NextCLI == CliNext \/ ChkNext

SpecCLI == InitCLI /\ [][NextCLI]_vars

\* an HTTP batch request while the server takes other batch requests
InitHTTP == InitOf({"server"}, MaxHttpRows, ThresholdFields)

NextHTTP ==
    \/ SrvNext
    \/ \E field \in ThresholdFields : OtherSearchBatch(field)

SpecHTTP == InitHTTP /\ [][NextHTTP]_vars

\* The handler of a batch request the server took before this one parsed its
\* form: what it leaves behind is matchThreshold.
EarlierSearchBatch(field) ==
    /\ pc = "request"
    /\ OtherSearchBatch(field)

NextEarlier ==
    \/ SrvNext
    \/ \E field \in ThresholdFields : EarlierSearchBatch(field)

\* an HTTP batch request after the server took other batch requests
SpecEarlier == InitHTTP /\ [][NextEarlier]_vars

\* an HTTP batch request with a subject type chosen in the web form or sent
\* by a client of the API
InitForm ==
    InitForms({"server"}, Uploads(RowTexts, MaxHttpRows), MaxHttpRows, {<<>>},
              {handleBatchSearchClick(t) : t \in SdnTypes} \cup {ApiForm(t) : t \in SdnTypes})

SpecForm == InitForm /\ [][SrvNext]_vars

\* an HTTP batch request of rows of every shape
InitShapes ==
    InitRows({"server"}, Uploads(ShapeRowTexts, MaxShapeRows), MaxShapeRows, {<<>>})

SpecShapes == InitShapes /\ [][SrvNext]_vars

\* the goroutines of ProcessRows: the caller, from the form to the return;
\* the goroutine of row k; the goroutine that waits and closes
SrvMain == SearchBatch \/ SrvLaunch \/ SrvSpawn \/ SrvCollect \/ SrvReturn
SrvWorker(k) == k \in RowIdx /\ (SrvSearch(k) \/ SrvWgDone(k) \/ SrvGateDone(k))
SrvCloser == SrvClose

\* the Go scheduler runs every goroutine that can run, and every call to the
\* remote service returns (its context times out after 5 seconds)
SrvFairness ==
    /\ WF_vars(SrvMain)
    /\ WF_vars(SrvCloser)
    /\ \A k \in 0..(MaxRows - 1) : WF_vars(SrvWorker(k))

\* the uploads of a header and at most n rows "1,S,J": what becomes of a row
\* is up to the answers of the remote service
SameRowUploads(n) == {<<Header>> \o [k \in 1..m |-> Row3] : m \in 0..n}

InitLive == InitRows({"server"}, SameRowUploads(MaxRows), MaxRows, {<<>>})

\* an HTTP batch request served alone, every goroutine scheduled
SpecLive == InitLive /\ [][SrvNext]_vars /\ SrvFairness

\* ------------------------------------------------------------ the claims
\* rows whose search returned without an error
Succeeded == {k \in RowIdx : task[k].st \in {"sent", "wgdone", "exit"} /\ ~task[k].err}
\* rows whose search returned an error
Failed == {k \in RowIdx : task[k].err}
\* row tasks that hold a worker slot: acquired and not yet released
InFlight == {k \in RowIdx : task[k].st \in {"running", "failed", "sending", "sent", "wgdone"}}
\* len of the returned slice
LenRet == Cardinality(DOMAIN ret.output)
\* the threshold getNoun reads
CurThreshold == IF prog = "server" THEN matchThreshold ELSE flagThreshold
\* the rows that were sent at least one line for
Sent == {k \in RowIdx : task[k].sends > 0}

\* C1: in ProcessRows a slot i+1 of output only ever holds the line that was
\* formatted from rows[i], and the returned output holds that line for every
\* row whose search returned without error, whatever the order the results
\* arrived in.
C1_OutputOrder ==
    prog = "server" =>
       /\ \A k \in RowIdx : output[k + 1] \in {EmptyLine, task[k].line}
       /\ ret.returned =>
             \A k \in RowIdx : ~task[k].err =>
                /\ ret.output[k + 1] = task[k].line
                /\ task[k].line # EmptyLine
                /\ task[k].line.row = trimDelimiters(data(k))

\* C1 witness: the result of the second row was collected while the result
\* of the first row, a different text, still waits in the channel.
C1_Witness ==
    /\ prog = "server"
    /\ pc = "collect"
    /\ input_size >= 2
    /\ data(0) # data(1)
    /\ resultsChan # <<>>
    /\ Head(resultsChan).Index = 0
    /\ output[1] = EmptyLine
    /\ output[2] # EmptyLine
    /\ output[2] = task[1].line

\* C2: at most limit row tasks hold a worker slot, in ProcessRows and in the
\* CLI processRows.
C2_WorkerLimit == Cardinality(InFlight) <= limit

\* C2 witness: more rows than slots, every slot taken and the launching loop
\* waiting at the gate with a row left.
C2_Witness ==
    /\ input_size > limit
    /\ pc = "loop"
    /\ next < input_size
    /\ Cardinality(InFlight) = limit
    /\ gate = limit

\* C3: a search error on a row of ProcessRows ends neither the process nor
\* the batch: ProcessRows returns a nil error and the line of every other
\* row whose search returned without error.
C3_ErrorsDoNotAbort ==
    prog = "server" =>
       /\ pc # "panic"
       /\ ret.returned =>
             /\ ret.err = NoError
             /\ \A j \in Failed : \A i \in RowIdx \ {j} :
                   ~task[i].err => ret.output[i + 1] = task[i].line /\ task[i].sends = 1

\* C3 witness: ProcessRows returned a batch with a failed and a formatted row.
C3_Witness ==
    /\ prog = "server"
    /\ ret.returned
    /\ \E j \in Failed : \E i \in RowIdx \ {j} :
          ~task[i].err /\ ret.output[i + 1] = task[i].line /\ task[i].line # EmptyLine

\* C4 as stated: ProcessRows returns N+1 entries, the formatted header and a
\* formatted row in every slot 1..N, also when searches fail.
C4_AllSlotsFormatted ==
    (prog = "server" /\ ret.returned) =>
       /\ LenRet = input_size + 1
       /\ ret.output[0] = writeHeadings(rows[1])
       /\ \A k \in RowIdx : ret.output[k + 1] # EmptyLine

\* C4 amended: ProcessRows returns N+1 entries: the formatted header in slot
\* 0, the formatted row in slot i+1 of every row whose search returned
\* without error and the empty string in the slot of every row whose search
\* failed.
C4_SlotsFormattedOrEmpty ==
    (prog = "server" /\ ret.returned) =>
       /\ LenRet = input_size + 1
       /\ ret.output[0] = writeHeadings(rows[1])
       /\ \A k \in RowIdx :
             IF task[k].err
             THEN ret.output[k + 1] = EmptyLine
             ELSE ret.output[k + 1] # EmptyLine /\ ret.output[k + 1] = task[k].line

\* C4 witness: a returned batch whose first row failed and whose second row
\* was formatted.
C4_Witness ==
    /\ prog = "server"
    /\ ret.returned
    /\ input_size >= 2
    /\ task[0].err
    /\ ~task[1].err
    /\ ret.output[1] = EmptyLine
    /\ ret.output[2] # EmptyLine

\* C5 as stated: every input row of a ProcessRows batch delivers exactly one
\* result to the completion channel.
C5_ExactlyOneResult ==
    (prog = "server" /\ ret.returned) => \A k \in RowIdx : task[k].sends = 1

\* C5 amended: no row delivers two results; a buffered result carries the
\* 0-based position of the row whose line it holds; once ProcessRows returns,
\* every row whose search returned without error has delivered exactly one
\* result and every row whose search failed none.
C5_OneResultUnlessFailed ==
    prog = "server" =>
       /\ \A k \in RowIdx : task[k].sends <= 1
       /\ \A m \in 1..Len(resultsChan) :
             /\ resultsChan[m].Index \in RowIdx
             /\ resultsChan[m].Value = task[resultsChan[m].Index].line
             /\ resultsChan[m].Value.row = trimDelimiters(data(resultsChan[m].Index))
       /\ ret.returned =>
             \A k \in RowIdx : task[k].sends = IF task[k].err THEN 0 ELSE 1

\* C5 witness: a returned batch with a row that delivered its result and a
\* row that delivered none.
C5_Witness ==
    /\ prog = "server"
    /\ ret.returned
    /\ \E k \in RowIdx : task[k].sends = 1 /\ ~task[k].err
    /\ \E k \in RowIdx : task[k].sends = 0 /\ task[k].err

\* C6: when k of the N rows of a ProcessRows batch succeed, 0 < k < N, the
\* summary logged is the partial-failure summary "k of N".
C6_PartialFailureSummary ==
    (prog = "server" /\ ret.returned
        /\ Cardinality(Succeeded) > 0 /\ Cardinality(Succeeded) < input_size) =>
       summary = <<"FAILURES", Cardinality(Succeeded), input_size>>

\* the text a written line starts with: the row (the name, for checkNames)
RowKey(k) == IF prog = "batchsearch" THEN TrimRight(data(k), {","}) ELSE name(k)

\* the row texts of the lines sent for rows k.., in the order of the input
RECURSIVE ExpectedKeys(_)
ExpectedKeys(k) ==
    IF k \notin RowIdx THEN <<>>
    ELSE [j \in 1..task[k].sends |-> RowKey(k)] \o ExpectedKeys(k + 1)

\* C7: the result lines processRows and checkNames write after the header
\* are in the order of the input rows (names).
C7_CliOutputOrder ==
    (prog \in {"batchsearch", "cc_batchsearch"} /\ ret.returned) =>
       [j \in 1..(LenRet - 1) |-> ret.output[j].row] = ExpectedKeys(0)

\* the label of a score under a threshold
Label(score, t) ==
    IF score < 0 THEN "Clear" ELSE IF score >= t THEN "MATCH" ELSE "Hit"

\* the threshold an HTTP request supplies: the parsed field, 0.99 without one
RequestThreshold == IF threshold = <<>> THEN DefaultThreshold ELSE ParseFloat(threshold).f

\* C8: every row of an HTTP batch is labelled against the threshold of its
\* own request, whatever other requests the server parses meanwhile.
C8_ThresholdPerBatch ==
    (prog = "server" /\ (threshold = <<>> \/ ParseFloat(threshold).ok)) =>
       \A k \in Sent : task[k].line.Result = Label(task[k].res.Score, RequestThreshold)

\* C9: getNoun labels every negative score Clear, whatever the threshold.
C9_NegativeIsClear ==
    prog \in {"server", "batchsearch"} =>
       \A k \in Sent : task[k].res.Score < 0 => task[k].line.Result = "Clear"

\* C9 witness: a negative score labelled under a threshold that is not above
\* it.
C9_Witness ==
    /\ prog \in {"server", "batchsearch"}
    /\ \E k \in Sent :
          /\ task[k].res.Score < 0
          /\ CurThreshold <= task[k].res.Score
          /\ task[k].line.Result = "Clear"

\* C10 as stated: getNoun labels every score at or above the threshold MATCH.
C10_AtThresholdIsMatch ==
    prog \in {"server", "batchsearch"} =>
       \A k \in Sent : task[k].res.Score >= CurThreshold => task[k].line.Result = "MATCH"

\* C10 amended: getNoun labels every score that is not negative and is at or
\* above the threshold MATCH.
C10_NonNegativeAtThresholdIsMatch ==
    prog \in {"server", "batchsearch"} =>
       \A k \in Sent :
          (task[k].res.Score >= 0 /\ task[k].res.Score >= CurThreshold) =>
             task[k].line.Result = "MATCH"

\* C10 witness: a score equal to the threshold, labelled MATCH.
C10_Witness ==
    /\ prog \in {"server", "batchsearch"}
    /\ \E k \in Sent :
          /\ task[k].res.Score >= 0
          /\ task[k].res.Score = CurThreshold
          /\ task[k].line.Result = "MATCH"

\* the three labels of the classifier
Nouns == {"Clear", "Hit", "MATCH"}

\* C11: every line ProcessRows formats carries exactly one of Clear, Hit and
\* MATCH, and it carries Hit exactly when the score s and the threshold t
\* satisfy 0 <= s < t.
C11_HitBelowThreshold ==
    prog = "server" =>
       \A k \in Sent :
          /\ task[k].line.Result \in Nouns
          /\ task[k].line.Result = "Hit" <=>
                (0 <= task[k].res.Score /\ task[k].res.Score < matchThreshold)

\* C11 witness: a line of ProcessRows labelled Hit, its score between 0 and
\* the threshold 0.99.
C11_Witness ==
    /\ prog = "server"
    /\ \E k \in Sent :
          /\ task[k].line.Result = "Hit"
          /\ task[k].res.Score > 0
          /\ task[k].res.Score < matchThreshold

\* the rows of ProcessRows whose Subject is empty and whose goroutine has
\* called searchByName
EmptySubjectSearched ==
    {k \in RowIdx : getNameFromRow(data(k)) = <<>> /\ task[k].st \notin {"pending", "running"}}

\* C12: searchByName of cmd/internal on an empty Subject returns an error and
\* issues no call to the remote service; ProcessRows sends nothing for that
\* row and still returns the line of every row whose search succeeded.
C12_EmptySubjectNoCall ==
    prog = "server" =>
       /\ \A k \in EmptySubjectSearched :
             task[k].err /\ task[k].calls = <<>> /\ task[k].sends = 0
       /\ ret.returned =>
             \A k \in EmptySubjectSearched : \A i \in RowIdx \ {k} :
                ~task[i].err =>
                   ret.output[i + 1] = task[i].line /\ task[i].line # EmptyLine

\* C12 witness: ProcessRows returned a batch with a row of empty Subject,
\* failed without a remote call, and the line of a row that was searched.
C12_Witness ==
    /\ prog = "server"
    /\ ret.returned
    /\ \E k \in EmptySubjectSearched : \E i \in RowIdx \ {k} :
          /\ task[k].err
          /\ task[k].calls = <<>>
          /\ ~task[i].err
          /\ task[i].calls # <<>>
          /\ ret.output[i + 1] = task[i].line
          /\ ret.output[k + 1] = EmptyLine

\* the rows of ProcessRows whose search returned, without error, a result
\* that is not set
Unset == {k \in Sent : ~task[k].res.IsSet}

\* C13: the line ProcessRows sends for a result with IsSet = false has
\* Result = Clear and empty SdnName, EntityID, Score and Programs columns,
\* under every threshold.
C13_UnsetResultIsClearLine ==
    prog = "server" =>
       \A k \in Unset :
          /\ task[k].line.Result = "Clear"
          /\ task[k].line.SdnName = <<>>
          /\ task[k].line.EntityID = ""
          /\ task[k].line.Score = ""
          /\ task[k].line.Programs = <<>>
          /\ task[k].line.row = trimDelimiters(data(k))

\* C13 witness: ProcessRows returned the Clear line of an unset result under
\* a threshold below the score of the unset result.
C13_Witness ==
    /\ prog = "server"
    /\ ret.returned
    /\ \E k \in Unset :
          /\ task[k].res.Score >= matchThreshold
          /\ ret.output[k + 1] = task[k].line
          /\ task[k].line.Result = "Clear"

\* field j (0-based) of a row, without the commas, tabs, CR and LF at its ends
Field(row, j) == Trim(Split(row, ",")[j + 1], {",", "\t", "\r", "\n"})

\* the Subject of a row by the fixed column mapping
Subject(row) ==
    LET n == Len(Split(row, ",")) IN
    IF n >= 3 THEN Field(row, 2) \o <<",", " ">> \o Field(row, 1)
    ELSE IF n = 2 THEN Field(row, 1) \o <<",", " ">> \o Field(row, 0)
    ELSE Field(row, 0)

\* the rows whose goroutine has called searchByName
Searched == {k \in RowIdx : task[k].st \notin {"pending", "running"}}

\* C14: the name ProcessRows asks the remote service for is the Subject of
\* the row by the fixed column mapping, its fields trimmed of commas, tabs,
\* CR and LF; a row for which nothing is asked has the empty Subject.
C14_SubjectByColumnMapping ==
    prog = "server" =>
       \A k \in Searched :
          IF task[k].calls = <<>>
          THEN Subject(data(k)) = <<>>
          ELSE /\ task[k].calls[1].api = "Search"
               /\ task[k].calls[1].arg = Subject(data(k))

\* C14 witness: the row of two fields "D" and "A" between a tab and a CR was
\* searched as "A, D".
C14_Witness ==
    /\ prog = "server"
    /\ \E k \in Searched :
          /\ data(k) = Row2cr
          /\ task[k].calls # <<>>
          /\ task[k].calls[1].arg = <<"A", ",", " ", "D">>

\* "First Last" of a display name "Last, First"
FirstLast(sdn_name) ==
    LET parts == Split(sdn_name, ",")
    IN  TrimLeft(parts[2], {" "}) \o <<" ">> \o parts[1]

\* C15: the line formatted for a candidate whose display name is
\* "Last, First" carries "First Last" in its SdnName column, without a comma
\* and without a character before or after it.
C15_NameFirstLast ==
    prog = "server" =>
       \A k \in Sent :
          (task[k].res.IsSet /\ Contains(task[k].res.SdnName, ",")) =>
             /\ task[k].line.SdnName = FirstLast(task[k].res.SdnName)
             /\ ~Contains(task[k].line.SdnName, ",")
             /\ task[k].line.SdnName = Trim(task[k].line.SdnName, {" "})

\* C16: on an input without data rows (only the header, or for the CLI no
\* row at all) ProcessRows and processRows launch no worker, do not end in a
\* panic, and return without error, ProcessRows just the formatted header.
C16_EmptyInputCompletes ==
    Len(rows) <= 1 =>
       /\ pc # "panic"
       /\ gate = 0
       /\ ret.returned =>
             /\ ret.err = NoError
             /\ ret.code = Success
             /\ LenRet = 1
             /\ prog = "server" => ret.output[0] = writeHeadings(rows[1])

\* ProcessRows is over: it returned, the completion channel is closed and
\* drained and every row goroutine has finished
SrvTerminated ==
    /\ pc = "done"
    /\ ret.returned
    /\ closed
    /\ resultsChan = <<>>
    /\ gate = 0
    /\ wg = 0
    /\ \A k \in RowIdx : task[k].st = "exit"

\* C17: ProcessRows terminates: whatever the searches return, every row
\* goroutine finishes, the completion channel is closed after all of them
\* are done, the collector loop exits and the function returns.
C17_ProcessRowsTerminates == <>[]SrvTerminated

\* C17 witness: ProcessRows is over for a batch of more rows than worker
\* slots with a failed search and an empty result.
C17_Witness ==
    /\ prog = "server"
    /\ SrvTerminated
    /\ input_size > limit
    /\ Failed # {}
    /\ Unset # {}

\* the name goroutines of checkNames that wait to send on the full channel
ChkBlockedSenders ==
    {k \in RowIdx : /\ task[k].st = "sending"
                    /\ task[k].res # <<>>
                    /\ Head(task[k].res).IsSet
                    /\ Len(resultsChan) = names_size}

\* C18: checkNames never deadlocks: as long as it has neither returned nor
\* ended in a panic some goroutine can take a step, and the launching loop
\* never waits for a worker slot while every running name goroutine waits
\* to send.
C18_CheckNamesNeverStuck ==
    (prog = "cc_batchsearch" /\ pc \notin {"done", "panic"}) =>
       /\ ENABLED ChkNext
       /\ ~(/\ pc = "loop"
            /\ next < names_size
            /\ gate = limit
            /\ InFlight # {}
            /\ InFlight \subseteq ChkBlockedSenders)

\* C19: whenever the collector of checkNames is about to write
\* output[count], count < len(output): the buffer of 5 x len(names) entries
\* holds the header and every result.
C19_OutputLargeEnough ==
    (prog = "cc_batchsearch" /\ pc = "collect" /\ resultsChan # <<>>) =>
       count < LenOutput

\* the results of ProcessRows that wait in the completion channel address
\* slots of their own, none of them written yet
PendingSlotsFree ==
    /\ \A m \in 1..Len(resultsChan) :
          /\ Slot(resultsChan[m]) \in DOMAIN output \ {0}
          /\ output[Slot(resultsChan[m])] = EmptyLine
    /\ \A m, n \in 1..Len(resultsChan) :
          m # n => Slot(resultsChan[m]) # Slot(resultsChan[n])

\* a step of ProcessRows that changes slot j of output: the slot was empty;
\* slot 0 gets the header from the caller after the launching loop, slot
\* i+1 gets the value of the result with index i, which the collector takes
\* from the channel
SlotWrite(j) ==
    /\ output[j] = EmptyLine
    /\ IF j = 0
       THEN /\ pc = "loop"
            /\ output'[0] = writeHeadings(rows[1])
       ELSE /\ pc = "collect"
            /\ resultsChan # <<>>
            /\ Head(resultsChan).Index = j - 1
            /\ output'[j] = Head(resultsChan).Value
            /\ resultsChan' = Tail(resultsChan)

\* C20: in ProcessRows a slot of output is written at most once, slot 0 with
\* the header and slot i+1 with the result of index i, by the collector
\* alone, and no two delivered results address the same slot.
C20_SlotsWrittenOnce ==
    /\ [](prog = "server" => PendingSlotsFree)
    /\ [][prog = "server" =>
            /\ DOMAIN output' = DOMAIN output
            /\ \A j \in DOMAIN output : output'[j] # output[j] => SlotWrite(j)
            /\ Cardinality({j \in DOMAIN output : output'[j] # output[j]}) <= 1]_vars

\* C20 witness: the collector of ProcessRows has written the header and the
\* slots of two rows, the second before the first, and the channel is empty.
C20_Witness ==
    /\ prog = "server"
    /\ pc = "collect"
    /\ input_size = 2
    /\ resultsChan = <<>>
    /\ task[1].st = "exit"
    /\ task[0].st = "sent"
    /\ \A j \in DOMAIN output : output[j] # EmptyLine

\* the row goroutines of ProcessRows that have called wg.Done
WgDone == {k \in RowIdx : task[k].st \in {"wgdone", "exit"}}

\* C21: in ProcessRows the completion channel is closed only after every row
\* goroutine has called wg.Done, so no send meets a closed channel; it never
\* buffers more than N results, each row sending at most one, so a row
\* goroutine that is about to send finds room.
C21_NoSendAfterClose ==
    prog = "server" =>
       /\ pc # "panic"
       /\ closed => WgDone = RowIdx
       /\ Len(resultsChan) <= input_size
       /\ \A k \in RowIdx : task[k].sends <= 1
       /\ \A k \in RowIdx :
             task[k].st = "running" => (~closed /\ Len(resultsChan) < input_size)

\* C21 witness: the completion channel of ProcessRows is closed while it
\* holds the results of all of two rows.
C21_Witness ==
    /\ prog = "server"
    /\ closed
    /\ input_size = 2
    /\ Len(resultsChan) = input_size

\* C22: in ProcessRows the worker slots in use are those of the row
\* goroutines in flight; a slot is released by one row goroutine at a time,
\* after its wg.Done, hence after its result, if any, was sent, and a row
\* goroutine that has released its slot takes no further step; once every
\* row goroutine has finished no slot is held.
C22_SlotReleasedOnce ==
    /\ [](prog = "server" =>
            /\ gate = Cardinality(InFlight)
            /\ (\A k \in RowIdx : task[k].st = "exit") => gate = 0)
    /\ [][prog = "server" =>
            /\ gate' < gate =>
                  \E k \in RowIdx :
                     /\ gate' = gate - 1
                     /\ task[k].st = "wgdone"
                     /\ task'[k].st = "exit"
                     /\ task[k].sends = IF task[k].err THEN 0 ELSE 1
                     /\ \A i \in RowIdx \ {k} : task'[i] = task[i]
            /\ \A k \in RowIdx : task[k].st = "exit" => task'[k] = task[k]]_vars

\* C22 witness: both row goroutines of a batch of ProcessRows have finished,
\* one after a search error and one after an empty result, and no slot is
\* held.
C22_Witness ==
    /\ prog = "server"
    /\ input_size = 2
    /\ gate = 0
    /\ \A k \in RowIdx : task[k].st = "exit"
    /\ \E k \in RowIdx : task[k].err
    /\ \E k \in RowIdx : ~task[k].err /\ ~task[k].res.IsSet

Resolved ==
    {k \in RowIdx : Len(task[k].calls) = 2 /\ task[k].calls[2].ans.err = ""}

\* C24: when the GetOfacCustomer lookup of searchByName of cmd/internal
\* succeeds, the row is not failed; if the entity id it returns is the
\* requested one the result is set, with the score of the alternate-name
\* reference, and otherwise the result is the empty one (IsSet = false,
\* Score = -1) and the row is sent as a Clear line.
C24_MismatchIsNoMatch ==
    prog = "server" =>
       \A k \in Resolved :
          LET ref == task[k].calls[1].ans.AltNames[1]
              customer == task[k].calls[2].ans.Sdn
          IN  /\ ~task[k].err
              /\ task[k].error = NoError
              /\ task[k].sends = 1
              /\ IF customer.EntityID = ref.EntityID
                 THEN /\ task[k].res.IsSet
                      /\ task[k].res.EntityID = ref.EntityID
                      /\ task[k].res.Score = ref.Match
                      /\ task[k].res.SdnName = customer.SdnName
                 ELSE /\ task[k].res = SearchResult(FALSE, "nil", <<>>, -1000, <<>>)
                      /\ task[k].line.Result = "Clear"

\* C24 witness: ProcessRows returned a batch of two rows, one whose lookup
\* of entity 008 returned entity 009 and whose line is Clear, and one whose
\* lookup returned entity 008 and whose result has the score 0.50 of the
\* alternate-name reference.
C24_Witness ==
    /\ prog = "server"
    /\ ret.returned
    /\ \E k \in Resolved :
          /\ task[k].calls[2].arg = "008"
          /\ task[k].calls[2].ans.Sdn.EntityID = "009"
          /\ ret.output[k + 1] = task[k].line
          /\ task[k].line.Result = "Clear"
    /\ \E k \in Resolved :
          /\ task[k].calls[2].ans.Sdn.EntityID = "008"
          /\ task[k].res.IsSet
          /\ task[k].res.Score = 500

\* C25: a result that searchByName of cmd/internal returns with a nil error
\* is either set with an EntityID and an SdnName that are not nil, or unset
\* with Score = -1, nil EntityID and SdnName and no Programs; so ProcessRows
\* never panics formatting one, and the line of an unset result is Clear.
C25_ResultWellFormed ==
    prog = "server" =>
       /\ pc # "panic"
       /\ \A k \in Sent :
             IF task[k].res.IsSet
             THEN /\ task[k].res.EntityID # "nil"
                  /\ task[k].res.SdnName # <<>>
                  /\ task[k].line.EntityID = task[k].res.EntityID
             ELSE /\ task[k].res.Score = -1000
                  /\ task[k].res.EntityID = "nil"
                  /\ task[k].res.SdnName = <<>>
                  /\ task[k].res.Programs = <<>>
                  /\ task[k].line.Result \notin {"Hit", "MATCH"}

\* C25 witness: ProcessRows returned a batch with the line of a set result
\* and the line of an unset result, under a threshold below -1.
C25_Witness ==
    /\ prog = "server"
    /\ ret.returned
    /\ matchThreshold < -1000
    /\ \E k \in Sent : task[k].res.IsSet /\ ret.output[k + 1] = task[k].line
    /\ \E k \in Sent : ~task[k].res.IsSet /\ ret.output[k + 1] = task[k].line

\* C26: when a remote call of searchByName of cmd/internal fails, the error
\* it returns wraps the error of the call that failed.
C26_ErrorWrapsCause ==
    prog = "server" =>
       \A k \in Failed :
          task[k].calls # <<>> =>
             LET failed == task[k].calls[Len(task[k].calls)]
             IN  /\ failed.ans.err # ""
                 /\ task[k].error # NoError
                 /\ task[k].error.cause = failed.ans.err

\* C28: processRows and checkNames return Failure exactly when the search
\* of at least one row returned an error, and they return only after every
\* row goroutine has called wg.Done; the exit code, once Failure, stays
\* Failure.
C28_FailureIffSearchError ==
    /\ [](prog \in {"batchsearch", "cc_batchsearch"} =>
            /\ exitCode \in {Success, Failure}
            /\ ret.returned =>
                  /\ ret.code = Failure <=> Failed # {}
                  /\ wg = 0
                  /\ \A k \in RowIdx : task[k].st \in {"wgdone", "exit"})
    /\ [][exitCode = Failure => exitCode' = Failure]_vars

\* C28 witness: a CLI dispatcher returned Failure for two rows, the search
\* of one of which returned an error and the search of the other a result.
C28_Witness ==
    /\ prog \in {"batchsearch", "cc_batchsearch"}
    /\ ret.returned
    /\ ret.code = Failure
    /\ input_size = 2
    /\ \E k \in RowIdx : task[k].err
    /\ \E k \in RowIdx : ~task[k].err

\* C27: the rows of an HTTP batch request whose threshold field is absent
\* or is not a number are labelled against 0.99, whatever the threshold
\* fields of the requests the server took before it.
C27_DefaultAfterEarlierRequests ==
    (prog = "server" /\ (threshold = <<>> \/ ~ParseFloat(threshold).ok)) =>
       \A k \in Sent : task[k].line.Result = Label(task[k].res.Score, DefaultThreshold)

\* C29: the subject type a batch request of the web form is searched with,
\* once SearchBatch has built its search_opts, is the one chosen in the form.
C29_FormSdnTypeApplied ==
    (prog = "server" /\ "sdnType" \in DOMAIN form /\ pc # "request") =>
       search_opts.SdnType = form["sdnType"]
====
